---- MODULE Spec2Model ----
(***************************************************************************)
(* Lyrics memorization judgment engine: resources/eval_coverage.py and     *)
(* resources/eval_judge.py.  Texts are sequences of characters, tokens are *)
(* sequences of characters, shingles are sequences of tokens, scores are   *)
(* exact fractions <<numerator, denominator>>.                             *)
(***************************************************************************)
EXTENDS Integers, Sequences, FiniteSets, TLC

\* ------------------------------------------------------------------ bounds
MaxOut == 2      \* output files judged in one run
MaxDocs == 2     \* entries of the reference tree
MaxN == 2        \* shingle length args.n
MaxWords == 3    \* words of a text given to the excerpt pipeline
MaxSet == 3      \* distinct shingles in the sets given to the score functions
MaxCorpus == 2   \* documents of a corpus given to best_match
MaxDen == 3      \* denominators of the scores and thresholds given to the label decision
MaxAgg == 3      \* iterations whose results are aggregated in two orders
MaxPats == 2     \* pattern strings of a refusal source given to load_refusal_patterns
MaxText == 3     \* characters of a text given to is_refusal and tokenize
MaxPrompts == 2  \* prompts given to generate_outputs

\* --------------------------------------------------------------- fractions
RECURSIVE Gcd(_, _)
Gcd(a, b) == IF b = 0 THEN a ELSE Gcd(b, a % b)

\* Python's a / b for non-negative integers, b > 0, kept exact
Frac(a, b) == LET g == Gcd(a, b) IN <<a \div g, b \div g>>

Zero == <<0, 1>>
One == <<1, 1>>
RLt(x, y) == x[1] * y[2] < y[1] * x[2]
RLe(x, y) == x[1] * y[2] <= y[1] * x[2]
RGt(x, y) == RLt(y, x)
RGe(x, y) == RLe(y, x)

\* ------------------------------------------------------------------ floats
\* A score a / b is written <<a, b>> in lowest terms: it stands for the float
\* that the division yields, and two scores compare as their floats do.
\* A float (IEEE-754 binary64, non-negative) is kept exactly, as the integer
\* value * 2^75 written in 7 limbs of 15 bits, least significant limb first.
\* Every float met here is 0 or lies between 2^-22 and 2^29, so it has 53
\* significant bits at most in this form.
LimbBits == 15
Base == 2 ^ LimbBits
Limbs == 1..7
MantissaBits == 53
FZero == [i \in Limbs |-> 0]

RECURSIVE big_add(_, _, _, _)
big_add(x, y, i, carry) ==
    IF i \notin Limbs THEN <<>>
    ELSE <<(x[i] + y[i] + carry) % Base>> \o big_add(x, y, i + 1, (x[i] + y[i] + carry) \div Base)

RECURSIVE big_mul(_, _, _, _)
big_mul(x, k, i, carry) ==
    IF i \notin Limbs THEN <<>>
    ELSE <<(x[i] * k + carry) % Base>> \o big_mul(x, k, i + 1, (x[i] * k + carry) \div Base)

\* long division by a small integer; the result is <<quotient, remainder>>
RECURSIVE big_div(_, _, _, _)
big_div(x, n, i, rem) ==
    IF i \notin Limbs THEN <<(<<>>), rem>>
    ELSE LET cur == rem * Base + x[i]
             low == big_div(x, n, i - 1, cur % n)
         IN  <<Append(low[1], cur \div n), low[2]>>

bit(x, p) == (x[(p \div LimbBits) + 1] \div (2 ^ (p % LimbBits))) % 2

RECURSIVE top_limb(_, _)
top_limb(x, i) == IF i \notin Limbs THEN 0 ELSE IF x[i] # 0 THEN i ELSE top_limb(x, i - 1)

RECURSIVE top_of(_, _)
top_of(v, p) == IF v < 2 ^ (p + 1) THEN p ELSE top_of(v, p + 1)

\* index of the most significant set bit, -1 for zero
top_bit(x) ==
    LET i == top_limb(x, 7)
    IN  IF i = 0 THEN -1 ELSE (i - 1) * LimbBits + top_of(x[i], 0)

\* whether all bits below p are zero
low_zero(x, p) ==
    /\ \A i \in Limbs : i <= p \div LimbBits => x[i] = 0
    /\ p \div LimbBits + 1 \in Limbs => x[p \div LimbBits + 1] % (2 ^ (p % LimbBits)) = 0

\* the bits below p cleared
truncate(x, p) ==
    [i \in Limbs |->
        IF i <= p \div LimbBits THEN 0
        ELSE IF i = p \div LimbBits + 1 THEN x[i] - (x[i] % (2 ^ (p % LimbBits)))
        ELSE x[i]]

pow2(p) == [i \in Limbs |-> IF i = p \div LimbBits + 1 THEN 2 ^ (p % LimbBits) ELSE 0]

\* round to nearest, ties to even, at 53 significant bits; sticky says that
\* the exact value lies above x by less than one unit of the last limb bit
round_even(x, sticky) ==
    LET c == top_bit(x) - (MantissaBits - 1)
    IN  IF c <= 0 THEN x
        ELSE LET more == sticky \/ ~low_zero(x, c - 1)
                 up == bit(x, c - 1) = 1 /\ (more \/ bit(x, c) = 1)
                 t == truncate(x, c)
             IN  IF up THEN big_add(t, pow2(c), 1, 0) ELSE t

\* the float a / b of two small non-negative integers
fdiv(a, b) ==
    LET q == big_div([i \in Limbs |-> IF i = 6 THEN a ELSE 0], b, 7, 0)
    IN  round_even(q[1], q[2] # 0)

\* float + float
fadd(x, y) == round_even(big_add(x, y, 1, 0), FALSE)

\* float / int
fdiv_int(x, n) ==
    LET q == big_div(x, n, 7, 0)
    IN  round_even(q[1], q[2] # 0)

\* round(x, 4) and the format :.4f of a float, in units of 1/10000
fmt4(x) ==
    LET y == big_mul(x, 10000, 1, 0)
        whole == y[6] + Base * y[7]
        half == y[5] \div (2 ^ (LimbBits - 1))
        more == y[5] % (2 ^ (LimbBits - 1)) # 0 \/ \E i \in 1..4 : y[i] # 0
    IN  IF half = 1 /\ (more \/ whole % 2 = 1) THEN whole + 1 ELSE whole

\* the scores of sets of at most eight shingles
SmallScores == {x \in (0..8) \X (1..8) : x[1] <= x[2]}

\* their floats and their roundings, computed once
SmallFloats == (<<0, 1>> :> FZero) @@ [x \in SmallScores |-> fdiv(x[1], x[2])]
SmallRounds == (<<0, 1>> :> 0) @@ [x \in SmallScores |-> fmt4(fdiv(x[1], x[2]))]

\* the float of a score
float(x) == IF x \in SmallScores THEN SmallFloats[x] ELSE fdiv(x[1], x[2])

\* round(x, 4) of a score, in units of 1/10000
Round4(x) == IF x \in SmallScores THEN SmallRounds[x] ELSE fmt4(float(x))

\* ---------------------------------------------------------------- generic
None == "None"
NoPath == <<>>

Range(s) == {s[i] : i \in 1..Len(s)}

RECURSIVE SeqsUpTo(_, _)
SeqsUpTo(S, k) ==
    IF k = 0 THEN {<<>>}
    ELSE LET shorter == SeqsUpTo(S, k - 1)
         IN  shorter \cup {Append(s, x) : s \in {t \in shorter : Len(t) = k - 1}, x \in S}

RECURSIVE Concat(_)
Concat(ss) == IF ss = <<>> THEN <<>> ELSE Head(ss) \o Concat(Tail(ss))

\* ------------------------------------------------------------- characters
BadByte == "#"
Space == " "
CombiningUml == "comb_uml"
AUml == "a_uml"
LowerChars == {"a", "b", "c", "d", "e", "f", "i", "n", "o", "u"}
UpperChars == {"A", "N"}
AlnumChars == LowerChars \cup UpperChars \cup {AUml}
WhiteChars == {Space}

\* str.isalnum for one character
isalnum(ch) == ch \in AlnumChars

\* str.lower for one character
lower(ch) == IF ch = "A" THEN "a" ELSE IF ch = "N" THEN "n" ELSE ch

\* unicodedata.normalize("NFKD", ch): compatibility decomposition
nfkd(ch) == IF ch = AUml THEN <<"a", CombiningUml>> ELSE <<ch>>

\* unicodedata.combining(ch) != 0
combining(ch) == ch = CombiningUml

\* bytes.decode("utf-8", errors="ignore"): undecodable bytes are dropped
read_text(bytes) == SelectSeq(bytes, LAMBDA b : b # BadByte)

normalize(text) ==
    LET low == [i \in 1..Len(text) |-> lower(text[i])]
        dec == Concat([i \in 1..Len(low) |-> nfkd(low[i])])
    IN  SelectSeq(dec, LAMBDA ch : ~combining(ch))

\* mutant of tokenize_loop: the buffer left at the end of the text is lost
RECURSIVE tokenize_loop_noflush(_, _, _, _)
tokenize_loop_noflush(text, i, buf, out) ==
    IF i > Len(text)
    THEN out
    ELSE IF isalnum(text[i])
         THEN tokenize_loop_noflush(text, i + 1, Append(buf, text[i]), out)
         ELSE IF buf # <<>>
              THEN tokenize_loop_noflush(text, i + 1, <<>>, Append(out, buf))
              ELSE tokenize_loop_noflush(text, i + 1, buf, out)

RECURSIVE tokenize_loop(_, _, _, _)
tokenize_loop(text, i, buf, out) ==
    IF i > Len(text)
    THEN IF buf # <<>> THEN Append(out, buf) ELSE out
    ELSE IF isalnum(text[i])
         THEN tokenize_loop(text, i + 1, Append(buf, text[i]), out)
         ELSE IF buf # <<>>
              THEN tokenize_loop(text, i + 1, <<>>, Append(out, buf))
              ELSE tokenize_loop(text, i + 1, buf, out)

tokenize(text) == tokenize_loop(text, 1, <<>>, <<>>)

\* mutant of make_shingles: the last window is left out
make_shingles_short(tokens, k) ==
    IF k <= 0 \/ Len(tokens) < k THEN <<>>
    ELSE [i \in 1..(Len(tokens) - k) |-> SubSeq(tokens, i, i + k - 1)]

make_shingles(tokens, k) ==
    IF k <= 0 \/ Len(tokens) < k THEN <<>>
    ELSE [i \in 1..(Len(tokens) - k + 1) |-> SubSeq(tokens, i, i + k - 1)]

\* ------------------------------------------------------------------ scores
\* mutant of jaccard: the intersection is divided by the query size
jaccard_over_query(a, b) ==
    IF a = {} /\ b = {} THEN Zero
    ELSE IF Cardinality(a \cap b) = 0 THEN Zero
    ELSE Frac(Cardinality(a \cap b), Cardinality(a))

\* mutant of jaccard: the intersection is divided by the smaller of the two sets
jaccard_over_smaller(a, b) ==
    IF a = {} /\ b = {} THEN Zero
    ELSE IF Cardinality(a \cap b) = 0 THEN Zero
    ELSE Frac(Cardinality(a \cap b),
              IF Cardinality(a) < Cardinality(b) THEN Cardinality(a) ELSE Cardinality(b))

jaccard(a, b) ==
    IF a = {} /\ b = {} THEN Zero
    ELSE IF Cardinality(a \cap b) = 0 THEN Zero
    ELSE Frac(Cardinality(a \cap b), Cardinality(a \cup b))

\* mutant of containment: the intersection is divided by the document size
containment_over_doc(a, b) ==
    IF a = {} \/ b = {} THEN Zero
    ELSE Frac(Cardinality(a \cap b), Cardinality(b))

containment(a, b) ==
    IF a = {} THEN Zero
    ELSE Frac(Cardinality(a \cap b), Cardinality(a))

\* mutant of best_match_step: a later document with an equal score wins
best_match_step_last(acc, a_set, d) ==
    IF d.shset = {} THEN acc
    ELSE LET j == jaccard(a_set, d.shset)
             c == containment(a_set, d.shset)
             a1 == IF RGe(j, acc[1]) /\ j # Zero THEN <<j, d.path, acc[3], acc[4]>> ELSE acc
         IN  IF RGe(c, a1[3]) /\ c # Zero THEN <<a1[1], a1[2], c, d.path>> ELSE a1

\* mutant of best_match_step: a document with an equal score replaces the match
best_match_step_ge(acc, a_set, d) ==
    IF d.shset = {} THEN acc
    ELSE LET j == jaccard(a_set, d.shset)
             c == containment(a_set, d.shset)
             a1 == IF RGe(j, acc[1]) THEN <<j, d.path, acc[3], acc[4]>> ELSE acc
         IN  IF RGe(c, a1[3]) THEN <<a1[1], a1[2], c, d.path>> ELSE a1

\* one iteration of the scan of best_match; acc = <<max_j, pj, max_c, pc>>
best_match_step(acc, a_set, d) ==
    IF d.shset = {} THEN acc
    ELSE LET j == jaccard(a_set, d.shset)
             c == containment(a_set, d.shset)
             a1 == IF RGt(j, acc[1]) THEN <<j, d.path, acc[3], acc[4]>> ELSE acc
         IN  IF RGt(c, a1[3]) THEN <<a1[1], a1[2], c, d.path>> ELSE a1

RECURSIVE best_match_loop(_, _, _, _)
best_match_loop(acc, a_set, corp, i) ==
    IF i > Len(corp) THEN acc
    ELSE best_match_loop(best_match_step(acc, a_set, corp[i]), a_set, corp, i + 1)

best_match(a_set, corp) ==
    best_match_loop(<<Zero, NoPath, Zero, NoPath>>, a_set, corp, 1)

\* ------------------------------------------------------------------ labels
\* mutant of judge_label: the score is looked at before the refusal
judge_label_score_first(max_containment, refused, threshold) ==
    IF RGe(max_containment, threshold) THEN "correct"
    ELSE IF refused THEN "refuse"
    ELSE "hallucinate"

judge_label(max_containment, refused, threshold) ==
    IF refused THEN "refuse"
    ELSE IF RGe(max_containment, threshold) THEN "correct"
    ELSE "hallucinate"

judge_one(max_containment, refused, thr) ==
    IF refused THEN "refuse"
    ELSE IF RGe(max_containment, thr) THEN "correct"
    ELSE "hallucinate"

\* ---------------------------------------------------------------- refusals
\* A pattern string is [valid |-> re.compile succeeds, lit |-> the literal it
\* searches for]; it is compiled with re.IGNORECASE.
DefaultLit == <<"n", "o">>
DEFAULT_REFUSAL_PATTERNS == <<[valid |-> TRUE, lit |-> DefaultLit]>>

\* rgx.search(t) for a literal compiled with re.IGNORECASE
search(rgx, t) ==
    \E i \in 1..(Len(t) - Len(rgx.lit) + 1) :
        \A k \in 1..Len(rgx.lit) : lower(t[i + k - 1]) = lower(rgx.lit[k])

RECURSIVE lstrip(_)
lstrip(t) == IF t # <<>> /\ Head(t) \in WhiteChars THEN lstrip(Tail(t)) ELSE t

RECURSIVE rstrip(_)
rstrip(t) ==
    IF t # <<>> /\ t[Len(t)] \in WhiteChars THEN rstrip(SubSeq(t, 1, Len(t) - 1)) ELSE t

strip(t) == rstrip(lstrip(t))

\* mutant of is_refusal: the patterns are searched in the untrimmed text
is_refusal_untrimmed(text, compiled) ==
    IF text = <<>> THEN FALSE
    ELSE \E i \in 1..Len(compiled) : search(compiled[i], text)

is_refusal(text, compiled) ==
    IF text = <<>> THEN FALSE
    ELSE \E i \in 1..Len(compiled) : search(compiled[i], strip(text))

\* the loop "try: compiled.append(re.compile(p)) except re.error: pass"
compile_all(pats) == SelectSeq(pats, LAMBDA p : p.valid)

\* A pattern source is [exists, readable, kind, pats]: kind is what json.loads
\* gives ("dict" with a patterns key, "list", "other" for another JSON value,
\* "invalid" when json.loads raises).
load_refusal_patterns(src) ==
    LET loaded == IF src.exists /\ src.readable /\ src.kind \in {"dict", "list"}
                  THEN src.pats ELSE <<>>
        patterns == IF loaded = <<>> THEN DEFAULT_REFUSAL_PATTERNS ELSE loaded
    IN  compile_all(patterns)

\* eval_judge.load_refusal_patterns: no guard and no fallback; raised says that
\* an exception leaves the function
load_refusal_patterns_judge(src) ==
    IF ~src.exists \/ ~src.readable \/ src.kind \in {"invalid", "other"}
    THEN [raised |-> TRUE, compiled |-> <<>>]
    ELSE [raised |-> FALSE, compiled |-> compile_all(src.pats)]

\* judge_from_metrics.load_refusal_patterns: no guard, no fallback, and the
\* patterns are compiled in a list comprehension, so re.error leaves it too
load_refusal_patterns_metrics(src) ==
    IF ~src.exists \/ ~src.readable \/ src.kind \in {"invalid", "other"}
    THEN [raised |-> TRUE, compiled |-> <<>>]
    ELSE IF \E i \in 1..Len(src.pats) : ~src.pats[i].valid
         THEN [raised |-> TRUE, compiled |-> <<>>]
         ELSE [raised |-> FALSE, compiled |-> src.pats]

\* the judging entry points and what the load gives each of them
EntryPoints == {"eval_coverage", "eval_judge", "judge_from_metrics"}

load_patterns_of(entry, src) ==
    IF entry = "eval_coverage"
    THEN [raised |-> FALSE, compiled |-> load_refusal_patterns(src)]
    ELSE IF entry = "eval_judge" THEN load_refusal_patterns_judge(src)
    ELSE load_refusal_patterns_metrics(src)

\* ---------------------------------------------------------------- language
STOP_DE == {<<"d", "u">>, <<"i", "n">>}
STOP_EN == {<<"a">>, <<"i">>, <<"i", "n">>}

Count(toks, S) == Cardinality({i \in 1..Len(toks) : toks[i] \in S})

\* the decision of detect_lang from the two hit counts; 0.005 is 1/200
detect_lang_rates(hits_de, hits_en, total) ==
    LET d == IF total > 1 THEN total ELSE 1
        rate_de == Frac(hits_de, d)
        rate_en == Frac(hits_en, d)
        mx == IF RGe(rate_de, rate_en) THEN rate_de ELSE rate_en
    IN  IF RLt(mx, <<1, 200>>) THEN None
        ELSE IF RGe(rate_de, rate_en) THEN "de" ELSE "en"

detect_lang(toks) ==
    IF toks = <<>> THEN None
    ELSE detect_lang_rates(Count(toks, STOP_DE), Count(toks, STOP_EN), Len(toks))

\* ------------------------------------------------------------------- paths
\* A path below a root is [dirs |-> directories from the root down,
\* name |-> file name, stem |-> Path.stem, suffix |-> Path.suffix,
\* hidden |-> name starts with "."].
Path(dirs, stem, suffix, hidden) ==
    [dirs |-> dirs, name |-> <<stem, suffix>>, stem |-> stem, suffix |-> suffix,
     hidden |-> hidden]

\* str.lower on a suffix
suffix_lower(suf) ==
    IF suf = ".TXT" THEN ".txt" ELSE IF suf = ".TEXT" THEN ".text" ELSE suf

\* A file-system entry is [path, isfile, readable, content].
iter_db_files(tree) ==
    SelectSeq(tree, LAMBDA e :
        /\ e.isfile
        /\ ~e.path.hidden
        /\ suffix_lower(e.path.suffix) \in {".txt", ".text", ""})

iter_out_files(tree) ==
    SelectSeq(tree, LAMBDA e : e.path.suffix = ".txt" /\ e.isfile)

\* first segment below the root when the relative path has two or more parts
genre_from_path(p) == IF Len(p.dirs) >= 1 THEN p.dirs[1] ELSE None

model_dir_of(p) == IF Len(p.dirs) >= 1 THEN p.dirs[1] ELSE "unknown-model"

extract_model_dir(p) == IF Len(p.dirs) >= 1 THEN p.dirs[1] ELSE "unknown-model"

\* ------------------------------------------------------------------ corpus
Doc(e, k) ==
    LET toks == tokenize(normalize(read_text(e.content)))
        sh == make_shingles(toks, k)
    IN  [path |-> e.path, tokens |-> toks, shingles |-> sh, shset |-> Range(sh),
         genre |-> genre_from_path(e.path), lang |-> detect_lang(toks)]

\* mutant of build_corpus: an unreadable file ends the build without documents
build_corpus_abort(tree, k) ==
    LET all == iter_db_files(tree)
    IN  IF \E i \in 1..Len(all) : ~all[i].readable THEN <<>>
        ELSE [i \in 1..Len(all) |-> Doc(all[i], k)]

build_corpus(tree, k) ==
    LET files == SelectSeq(iter_db_files(tree), LAMBDA e : e.readable)
    IN  [i \in 1..Len(files) |-> Doc(files[i], k)]

\* eval_judge keeps only path and shingle set
build_db_corpus(tree, k) ==
    LET files == SelectSeq(iter_db_files(tree), LAMBDA e : e.readable)
    IN  [i \in 1..Len(files) |->
            [path |-> files[i].path,
             shset |-> Range(make_shingles(tokenize(normalize(read_text(files[i].content))), k))]]

\* ------------------------------------------------------------ file systems
\* words of the texts, as character sequences
W_du == <<"d", "u">>
W_a == <<"a">>
W_b == <<"b">>
W_No == <<"N", "o">>
W_bad == <<"d", BadByte, "u">>

RECURSIVE Render(_)
Render(ws) ==
    IF ws = <<>> THEN <<>>
    ELSE IF Len(ws) = 1 THEN Head(ws)
    ELSE Head(ws) \o <<Space>> \o Render(Tail(ws))

\* the reference tree in the order rglob lists it
DbCatalogue ==
    << [path |-> Path(<<"pop", "x">>, "s1", ".txt", FALSE), isfile |-> TRUE,
        readable |-> TRUE, content |-> Render(<<W_du, W_a, W_du>>)],
       [path |-> Path(<<>>, "s2", "", FALSE), isfile |-> TRUE,
        readable |-> TRUE, content |-> Render(<<W_du>>)],
       [path |-> Path(<<"rock">>, "s3", ".TEXT", FALSE), isfile |-> TRUE,
        readable |-> FALSE, content |-> <<>>],
       [path |-> Path(<<"pop">>, ".s4", ".txt", TRUE), isfile |-> TRUE,
        readable |-> TRUE, content |-> Render(<<W_b>>)] >>

\* the trees of at most MaxDocs entries: the contiguous slices of the catalogue
DbTrees ==
    {t \in {SubSeq(DbCatalogue, i, j) :
                i \in 1..(Len(DbCatalogue) + 1), j \in 0..Len(DbCatalogue)} :
        Len(t) <= MaxDocs}

\* the outputs tree; what a file holds is seen when it is read
OutTree ==
    << [path |-> Path(<<"m1">>, "001-a", ".txt", FALSE), isfile |-> TRUE],
       [path |-> Path(<<"m1">>, "002-b", ".txt", FALSE), isfile |-> TRUE],
       [path |-> Path(<<>>, "c", ".txt", FALSE), isfile |-> TRUE],
       [path |-> Path(<<"m1">>, "notes", ".md", FALSE), isfile |-> TRUE] >>

OutContents ==
    { <<>>,
      Render(<<W_du, W_a>>),
      Render(<<W_No, W_du>>),
      Render(<<W_bad, W_b>>) }

RefusalSources ==
    { [exists |-> TRUE, readable |-> TRUE, kind |-> "list",
       pats |-> <<[valid |-> TRUE, lit |-> DefaultLit]>>],
      [exists |-> FALSE, readable |-> FALSE, kind |-> "invalid", pats |-> <<>>] }

\* the NNN- prefix of an output file name (idx_re), 0 when there is none
name_idx(name) ==
    IF name[1] = "001-a" THEN 1 ELSE IF name[1] = "002-b" THEN 2 ELSE 0

\* idx -> mode as loaded from the prompts file
idx_to_mode == (1 :> "real") @@ (2 :> "switch_author")

mode_of(p) ==
    IF name_idx(p.name) \in DOMAIN idx_to_mode THEN idx_to_mode[name_idx(p.name)] ELSE "?"

\* string order of the identifiers that are sorted
StrRank ==
    ("de" :> 1) @@ ("en" :> 2) @@ ("m1" :> 3) @@ ("pop" :> 4) @@ ("rock" :> 5)
        @@ ("unknown-model" :> 6)

RECURSIVE sorted(_)
sorted(S) ==
    IF S = {} THEN <<>>
    ELSE LET m == CHOOSE x \in S : \A y \in S : StrRank[x] <= StrRank[y]
         IN  <<m>> \o sorted(S \ {m})

\* argparse defaults of --threshold and --correct-threshold: 0.3
threshold == <<3, 10>>
correct_threshold == <<3, 10>>

\* ------------------------------------------------------------------- state
VARIABLES
    pc,               \* where main is: start, built, scan, done, fatal, crash
    prog,             \* which entry point runs: eval_coverage or eval_judge
    shingle_n,        \* args.n
    db_tree,          \* the reference tree under --db
    refusals,         \* the pattern source under --refusals
    corpus,           \* build_corpus / build_db_corpus result
    patterns,         \* compiled refusal patterns
    rows,             \* the row list
    counts_by_model,  \* model -> label -> count
    agg_by_genre,     \* genre -> list of containment scores
    agg_by_lang,      \* lang -> list of containment scores
    tables,           \* the files written at the end of the run
    seen,             \* history: the output files read so far, with what the read gave
    matched,          \* history: the output paths given to best_match and is_refusal
    call,             \* the function applied by the last step of SpecFn
    ret,              \* its result
    gen               \* generate_outputs: position in its loops, calls made, files written

vars == <<pc, prog, shingle_n, db_tree, refusals, corpus, patterns, rows,
          counts_by_model, agg_by_genre, agg_by_lang, tables, seen, matched, call, ret,
          gen>>

runVars == <<pc, prog, shingle_n, db_tree, refusals, corpus, patterns, rows,
             counts_by_model, agg_by_genre, agg_by_lang, tables, seen, matched, gen>>

Progs == {"eval_coverage", "eval_judge"}
Labels == {"correct", "refuse", "hallucinate", "error"}
NoCall == [op |-> "none"]
NoTables == [written |-> FALSE]
Empty == [x \in {} |-> 0]
NoGen == [pc |-> "idle"]

Init ==
    /\ pc = "start"
    /\ prog \in Progs
    /\ shingle_n \in 1..MaxN
    /\ db_tree \in DbTrees
    /\ refusals \in RefusalSources
    /\ corpus = <<>>
    /\ patterns = <<>>
    /\ rows = <<>>
    /\ counts_by_model = Empty
    /\ agg_by_genre = Empty
    /\ agg_by_lang = Empty
    /\ tables = NoTables
    /\ seen = {}
    /\ matched = {}
    /\ call = NoCall
    /\ ret = NoCall
    /\ gen = NoGen

\* ------------------------------------------------- judge_from_metrics
\* judge_row once the output file is read (or not), its shingle set built and
\* the refusal patterns applied: refs are the reference files that the
\* lookup of the mode finds, in the order it lists them
RECURSIVE best_album_track(_, _, _)
best_album_track(shset, refs, best) ==
    IF refs = <<>> THEN best
    ELSE LET c == containment(shset, Head(refs).shset)
         IN  best_album_track(shset, Tail(refs),
                              IF RGt(c, best.c) THEN [c |-> c, file |-> Head(refs).path]
                              ELSE best)

judge_row(readable, mode, shset, refs, refused, correct_thr) ==
    LET decide(c, file) ==
            IF RGe(c, correct_thr) THEN [label |-> "correct", note |-> "", c |-> c, file |-> file]
            ELSE IF refused THEN [label |-> "refuse", note |-> "refused", c |-> c, file |-> file]
            ELSE [label |-> "hallucinate", note |-> "", c |-> c, file |-> file]
        made_up ==
            IF refused THEN [label |-> "refuse", note |-> "refused", c |-> Zero, file |-> NoPath]
            ELSE [label |-> "hallucinate", note |-> "", c |-> Zero, file |-> NoPath]
    IN  IF ~readable
        THEN [label |-> "error", note |-> "read_error", c |-> Zero, file |-> NoPath]
        ELSE IF mode = "real"
        THEN IF refs # <<>> THEN decide(containment(shset, refs[1].shset), refs[1].path)
             ELSE [label |-> "error", note |-> "no_song_file", c |-> Zero, file |-> NoPath]
        ELSE IF mode \in {"switch_author", "switch_album"}
        THEN IF refs # <<>> THEN decide(containment(shset, refs[1].shset), refs[1].path)
             ELSE made_up
        ELSE IF mode = "switch_title"
        THEN LET best == best_album_track(shset, refs, [c |-> Zero, file |-> NoPath])
             IN  decide(best.c, best.file)
        ELSE IF mode = "madeup_all" THEN made_up
        ELSE [label |-> "error", note |-> "unknown_mode", c |-> Zero, file |-> NoPath]

\* ---------------------------------------------------------- main: the build
\* mutant of BuildCorpus: the empty-corpus check is missing
BuildCorpus_unchecked ==
    /\ pc = "start"
    /\ corpus' = IF prog = "eval_coverage" THEN build_corpus(db_tree, shingle_n)
                  ELSE build_db_corpus(db_tree, shingle_n)
    /\ pc' = "built"
    /\ UNCHANGED <<prog, shingle_n, db_tree, refusals, patterns, rows, counts_by_model,
                   agg_by_genre, agg_by_lang, tables, seen, matched, call, ret, gen>>

\* corpus = build_corpus(db_root, args.n); SystemExit when it has no document
BuildCorpus ==
    /\ pc = "start"
    /\ corpus' = IF prog = "eval_coverage" THEN build_corpus(db_tree, shingle_n)
                  ELSE build_db_corpus(db_tree, shingle_n)
    /\ pc' = IF Len(corpus') = 0 THEN "fatal" ELSE "built"
    /\ UNCHANGED <<prog, shingle_n, db_tree, refusals, patterns, rows, counts_by_model,
                   agg_by_genre, agg_by_lang, tables, seen, matched, call, ret, gen>>

\* mutant of LoadPatterns: the scan starts with the patterns not yet loaded
LoadPatterns_deferred ==
    /\ pc = "built"
    /\ pc' = "scan"
    /\ patterns' = <<>>
    /\ UNCHANGED <<prog, shingle_n, db_tree, refusals, corpus, rows, counts_by_model,
                   agg_by_genre, agg_by_lang, tables, seen, matched, call, ret, gen>>

\* patterns = load_refusal_patterns(...); in eval_judge the load may raise
LoadPatterns ==
    /\ pc = "built"
    /\ IF prog = "eval_coverage"
       THEN pc' = "scan" /\ patterns' = load_refusal_patterns(refusals)
       ELSE LET loaded == load_refusal_patterns_judge(refusals)
            IN  /\ pc' = IF loaded.raised THEN "crash" ELSE "scan"
                /\ patterns' = loaded.compiled
    /\ UNCHANGED <<prog, shingle_n, db_tree, refusals, corpus, rows, counts_by_model,
                   agg_by_genre, agg_by_lang, tables, seen, matched, call, ret, gen>>

\* ------------------------------------------------------- main: one file
extract_song_id(p) == p.stem

\* mutant of inc: the count is set to 1 instead of incremented
inc_set(counts, m, label) ==
    LET cnt == IF m \in DOMAIN counts THEN counts[m] ELSE Empty
    IN  [k \in DOMAIN counts \cup {m} |->
            IF k = m THEN [l \in DOMAIN cnt \cup {label} |-> IF l = label THEN 1 ELSE cnt[l]]
            ELSE counts[k]]

\* defaultdict(Counter): counts_by_model[m][label] += 1
inc(counts, m, label) ==
    LET cnt == IF m \in DOMAIN counts THEN counts[m] ELSE Empty
        old == IF label \in DOMAIN cnt THEN cnt[label] ELSE 0
    IN  [k \in DOMAIN counts \cup {m} |->
            IF k = m THEN [l \in DOMAIN cnt \cup {label} |-> IF l = label THEN old + 1 ELSE cnt[l]]
            ELSE counts[k]]

\* defaultdict(list): agg[key].append(x)
push(agg, key, x) ==
    [k \in DOMAIN agg \cup {key} |->
        IF k = key THEN Append(IF key \in DOMAIN agg THEN agg[key] ELSE <<>>, x)
        ELSE agg[k]]

\* mutant of aggregate: every judged output is appended to the per-genre lists
aggregate_every(acc, model, j) ==
    [counts |-> inc(acc.counts, model, j.label),
     by_genre |-> push(acc.by_genre, IF j.genre # None THEN j.genre ELSE "?", j.max_c),
     by_lang |-> IF j.lang # None THEN push(acc.by_lang, j.lang, j.max_c)
                 ELSE acc.by_lang]

\* the three appends that end an iteration of the loop of eval_coverage.main
aggregate(acc, model, j) ==
    [counts |-> inc(acc.counts, model, j.label),
     by_genre |-> IF j.genre # None THEN push(acc.by_genre, j.genre, j.max_c)
                  ELSE acc.by_genre,
     by_lang |-> IF j.lang # None THEN push(acc.by_lang, j.lang, j.max_c)
                 ELSE acc.by_lang]

\* mutant of error_row: the unreadable file is folded into hallucinate
error_row_hallucinate(p) ==
    [output_path |-> p, lang |-> "?", tokens |-> 0, shingles |-> 0,
     max_jaccard |-> 0, best_song_jaccard |-> NoPath,
     max_containment |-> 0, best_song_containment |-> NoPath,
     genre |-> "?", memorization_flag |-> 0, model |-> model_dir_of(p),
     mode |-> mode_of(p), label |-> "hallucinate", note |-> ""]

\* the row of the except branch of eval_coverage.main
error_row(p) ==
    [output_path |-> p, lang |-> "?", tokens |-> 0, shingles |-> 0,
     max_jaccard |-> 0, best_song_jaccard |-> NoPath,
     max_containment |-> 0, best_song_containment |-> NoPath,
     genre |-> "?", memorization_flag |-> 0, model |-> model_dir_of(p),
     mode |-> mode_of(p), label |-> "error", note |-> "read_error"]

\* what eval_coverage.main computes for a file that was read
judged(bytes, corp, pats, k) ==
    LET txt == read_text(bytes)
        toks == tokenize(normalize(txt))
        sh == make_shingles(toks, k)
        bm == best_match(Range(sh), corp)
        refused == is_refusal(txt, pats)
    IN  [toks |-> toks, sh |-> sh, lang |-> detect_lang(toks),
         max_j |-> bm[1], pj |-> bm[2], max_c |-> bm[3], pc |-> bm[4],
         genre |-> IF bm[2] # NoPath THEN genre_from_path(bm[2]) ELSE None,
         refused |-> refused,
         label |-> judge_label(bm[3], refused, correct_threshold)]

\* mutant of judged_row: shingles is the size of the deduplicated shingle set
judged_row_dedup(p, j) ==
    [output_path |-> p, lang |-> IF j.lang # None THEN j.lang ELSE "?",
     tokens |-> Len(j.toks), shingles |-> Cardinality(Range(j.sh)),
     max_jaccard |-> Round4(j.max_j), best_song_jaccard |-> j.pj,
     max_containment |-> Round4(j.max_c), best_song_containment |-> j.pc,
     genre |-> IF j.genre # None THEN j.genre ELSE "?",
     memorization_flag |-> IF RGe(j.max_c, threshold) THEN 1 ELSE 0,
     model |-> model_dir_of(p), mode |-> mode_of(p), label |-> j.label,
     note |-> IF j.refused THEN "refused" ELSE ""]

judged_row(p, j) ==
    [output_path |-> p, lang |-> IF j.lang # None THEN j.lang ELSE "?",
     tokens |-> Len(j.toks), shingles |-> Len(j.sh),
     max_jaccard |-> Round4(j.max_j), best_song_jaccard |-> j.pj,
     max_containment |-> Round4(j.max_c), best_song_containment |-> j.pc,
     genre |-> IF j.genre # None THEN j.genre ELSE "?",
     memorization_flag |-> IF RGe(j.max_c, threshold) THEN 1 ELSE 0,
     model |-> model_dir_of(p), mode |-> mode_of(p), label |-> j.label,
     note |-> IF j.refused THEN "refused" ELSE ""]

\* the JudgeResult of the except branch of eval_judge.main
error_result(p) ==
    [model_dir |-> extract_model_dir(p), output_path |-> p, song_id |-> extract_song_id(p),
     tokens |-> 0, shingles |-> 0, max_jaccard |-> 0, best_song_jaccard |-> NoPath,
     max_containment |-> 0, best_song_containment |-> NoPath,
     label |-> "error", note |-> "read_error"]

judged_result(p, bytes, corp, pats, k) ==
    LET text == read_text(bytes)
        toks == tokenize(normalize(text))
        sh == make_shingles(toks, k)
        bm == best_match(Range(sh), corp)
        refused == is_refusal(text, pats)
    IN  [model_dir |-> extract_model_dir(p), output_path |-> p, song_id |-> extract_song_id(p),
         tokens |-> Len(toks), shingles |-> Len(sh),
         max_jaccard |-> Round4(bm[1]), best_song_jaccard |-> bm[2],
         max_containment |-> Round4(bm[3]), best_song_containment |-> bm[4],
         label |-> judge_one(bm[3], refused, correct_threshold),
         note |-> IF refused THEN "refused" ELSE ""]

\* the output paths the loop has not reached yet
Pending ==
    {iter_out_files(OutTree)[i].path : i \in 1..Len(iter_out_files(OutTree))}
        \ {s.path : s \in seen}

\* mutant of ReadError: the error row replaces the rows collected so far
ReadError_replace ==
    /\ pc = "scan"
    /\ Len(rows) < MaxOut
    /\ \E p \in Pending :
        /\ seen' = seen \cup {[path |-> p, ok |-> FALSE, bytes |-> <<>>]}
        /\ IF prog = "eval_coverage"
           THEN /\ rows' = <<error_row(p)>>
                /\ counts_by_model' = inc(counts_by_model, model_dir_of(p), "error")
           ELSE /\ rows' = <<error_result(p)>>
                /\ counts_by_model' = counts_by_model
    /\ UNCHANGED <<pc, prog, shingle_n, db_tree, refusals, corpus, patterns,
                   agg_by_genre, agg_by_lang, tables, matched, call, ret, gen>>

\* one iteration of the loop whose read_text raises
ReadError ==
    /\ pc = "scan"
    /\ Len(rows) < MaxOut
    /\ \E p \in Pending :
        /\ seen' = seen \cup {[path |-> p, ok |-> FALSE, bytes |-> <<>>]}
        /\ IF prog = "eval_coverage"
           THEN /\ rows' = Append(rows, error_row(p))
                /\ counts_by_model' = inc(counts_by_model, model_dir_of(p), "error")
           ELSE /\ rows' = Append(rows, error_result(p))
                /\ counts_by_model' = counts_by_model
    /\ UNCHANGED <<pc, prog, shingle_n, db_tree, refusals, corpus, patterns,
                   agg_by_genre, agg_by_lang, tables, matched, call, ret, gen>>

\* mutant of JudgeFile: the note of the previous row is carried into the new row
JudgeFile_carry ==
    /\ pc = "scan"
    /\ Len(rows) < MaxOut
    /\ \E p \in Pending, bytes \in OutContents :
        /\ seen' = seen \cup {[path |-> p, ok |-> TRUE, bytes |-> bytes]}
        /\ matched' = matched \cup {p}
        /\ IF prog = "eval_coverage"
           THEN LET j == judged(bytes, corpus, patterns, shingle_n)
                    acc == aggregate([counts |-> counts_by_model, by_genre |-> agg_by_genre,
                                      by_lang |-> agg_by_lang], model_dir_of(p), j)
                    r == judged_row(p, j)
                IN  /\ rows' = Append(rows, IF rows = <<>> THEN r
                                            ELSE [r EXCEPT !.note = rows[Len(rows)].note])
                    /\ agg_by_genre' = acc.by_genre
                    /\ agg_by_lang' = acc.by_lang
                    /\ counts_by_model' = acc.counts
           ELSE LET r == judged_result(p, bytes, corpus, patterns, shingle_n)
                IN  /\ rows' = Append(rows, IF rows = <<>> THEN r
                                            ELSE [r EXCEPT !.note = rows[Len(rows)].note])
                    /\ UNCHANGED <<agg_by_genre, agg_by_lang, counts_by_model>>
    /\ UNCHANGED <<pc, prog, shingle_n, db_tree, refusals, corpus, patterns,
                   tables, call, ret, gen>>

\* one iteration of the loop for a file that is read
JudgeFile ==
    /\ pc = "scan"
    /\ Len(rows) < MaxOut
    /\ \E p \in Pending, bytes \in OutContents :
        /\ seen' = seen \cup {[path |-> p, ok |-> TRUE, bytes |-> bytes]}
        /\ matched' = matched \cup {p}
        /\ IF prog = "eval_coverage"
           THEN LET j == judged(bytes, corpus, patterns, shingle_n)
                    acc == aggregate([counts |-> counts_by_model, by_genre |-> agg_by_genre,
                                      by_lang |-> agg_by_lang], model_dir_of(p), j)
                IN  /\ rows' = Append(rows, judged_row(p, j))
                    /\ agg_by_genre' = acc.by_genre
                    /\ agg_by_lang' = acc.by_lang
                    /\ counts_by_model' = acc.counts
           ELSE /\ rows' = Append(rows, judged_result(p, bytes, corpus, patterns, shingle_n))
                /\ UNCHANGED <<agg_by_genre, agg_by_lang, counts_by_model>>
    /\ UNCHANGED <<pc, prog, shingle_n, db_tree, refusals, corpus, patterns,
                   tables, call, ret, gen>>

\* ------------------------------------------------------ main: the tables
\* the builtin sum of a list of floats: from 0, left to right, every addition
\* rounded (CPython up to 3.11; later versions carry a compensation term)
RECURSIVE fsum(_)
fsum(xs) ==
    IF Len(xs) = 0 THEN FZero
    ELSE fadd(fsum(SubSeq(xs, 1, Len(xs) - 1)), float(xs[Len(xs)]))

\* mean(xs) = sum(xs)/len(xs) if xs else 0.0
mean(xs) == IF xs = <<>> THEN FZero ELSE fdiv_int(fsum(xs), Len(xs))

get(cnt, label) == IF label \in DOMAIN cnt THEN cnt[label] ELSE 0

RECURSIVE sum_values(_)
sum_values(cnt) ==
    IF DOMAIN cnt = {} THEN 0
    ELSE LET l == CHOOSE x \in DOMAIN cnt : TRUE
         IN  cnt[l] + sum_values([k \in DOMAIN cnt \ {l} |-> cnt[k]])

\* the lines of agg_by_genre.tsv / agg_by_lang.tsv: key, count, mean as :.4f
agg_lines(agg) ==
    LET keys == sorted(DOMAIN agg)
    IN  [i \in 1..Len(keys) |->
            [key |-> keys[i], count |-> Len(agg[keys[i]]), avg |-> fmt4(mean(agg[keys[i]]))]]

\* the lines of summary_by_model.tsv
summary_lines(counts) ==
    LET ms == sorted(DOMAIN counts)
    IN  [i \in 1..Len(ms) |->
            [model |-> ms[i],
             correct |-> get(counts[ms[i]], "correct"),
             refuse |-> get(counts[ms[i]], "refuse"),
             hallucinate |-> get(counts[ms[i]], "hallucinate"),
             error |-> get(counts[ms[i]], "error"),
             total |-> sum_values(counts[ms[i]])]]

\* for r in rows: counts_by_model[r.model_dir][r.label] += 1
RECURSIVE count_rows(_, _)
count_rows(counts, rs) ==
    IF rs = <<>> THEN counts
    ELSE count_rows(inc(counts, Head(rs).model_dir, Head(rs).label), Tail(rs))

\* key order of the dict built for each row, and the header used without rows
RowKeys ==
    <<"output_path", "lang", "tokens", "shingles", "max_jaccard", "best_song_jaccard",
      "max_containment", "best_song_containment", "genre", "memorization_flag",
      "model", "mode", "label", "note">>

FallbackHeader ==
    <<"output_path", "model", "mode", "lang", "tokens", "shingles", "max_jaccard",
      "best_song_jaccard", "max_containment", "best_song_containment", "genre",
      "memorization_flag", "label", "note">>

JudgeHeader ==
    <<"model", "output_path", "song_id", "tokens", "shingles", "max_jaccard",
      "best_song_jaccard", "max_containment", "best_song_containment", "label", "note">>

\* mutant of WriteTables: the summary lines come in either order of the models
WriteTables_unordered ==
    /\ pc = "scan"
    /\ pc' = "done"
    /\ \E flip \in BOOLEAN :
        LET turn(ls) == IF flip THEN [i \in 1..Len(ls) |-> ls[Len(ls) + 1 - i]] ELSE ls
        IN  IF prog = "eval_coverage"
            THEN /\ counts_by_model' = counts_by_model
                 /\ tables' = [written |-> TRUE,
                               header |-> IF rows # <<>> THEN RowKeys ELSE FallbackHeader,
                               body |-> rows,
                               by_genre |-> agg_lines(agg_by_genre),
                               by_lang |-> agg_lines(agg_by_lang),
                               summary |-> turn(summary_lines(counts_by_model))]
            ELSE /\ counts_by_model' = count_rows(Empty, rows)
                 /\ tables' = [written |-> TRUE,
                               header |-> JudgeHeader,
                               body |-> rows,
                               summary |-> turn(summary_lines(counts_by_model'))]
    /\ UNCHANGED <<prog, shingle_n, db_tree, refusals, corpus, patterns, rows,
                   agg_by_genre, agg_by_lang, seen, matched, call, ret, gen>>

\* the loop is over: the row table and the summaries are written
WriteTables ==
    /\ pc = "scan"
    /\ pc' = "done"
    /\ IF prog = "eval_coverage"
       THEN /\ counts_by_model' = counts_by_model
            /\ tables' = [written |-> TRUE,
                          header |-> IF rows # <<>> THEN RowKeys ELSE FallbackHeader,
                          body |-> rows,
                          by_genre |-> agg_lines(agg_by_genre),
                          by_lang |-> agg_lines(agg_by_lang),
                          summary |-> summary_lines(counts_by_model)]
       ELSE /\ counts_by_model' = count_rows(Empty, rows)
            /\ tables' = [written |-> TRUE,
                          header |-> JudgeHeader,
                          body |-> rows,
                          summary |-> summary_lines(counts_by_model')]
    /\ UNCHANGED <<prog, shingle_n, db_tree, refusals, corpus, patterns, rows,
                   agg_by_genre, agg_by_lang, seen, matched, call, ret, gen>>

Next == BuildCorpus \/ LoadPatterns \/ ReadError \/ JudgeFile \/ WriteTables

Spec == Init /\ [][Next]_vars

\* ------------------------------------------- the functions applied directly
Universe == 1..MaxSet
Scores == {Frac(q[1], q[2]) : q \in {x \in (0..MaxDen) \X (1..MaxDen) : x[1] <= x[2]}}
Thresholds == Scores \cup {<<3, 10>>, <<3, 2>>}
FnWords == {W_a, W_b}
FnPath(i) == Path(<<"pop">>, i, ".txt", FALSE)
FnCorpora ==
    {[i \in 1..Len(sets) |-> [path |-> FnPath(i), shset |-> sets[i]]] :
        sets \in SeqsUpTo(SUBSET Universe, MaxCorpus)}

\* scenario A: one document a b c d e f, the query a b c d e, shingle length 5
ScenarioDoc == Render(<< <<"a">>, <<"b">>, <<"c">>, <<"d">>, <<"e">>, <<"f">> >>)
ScenarioQuery == Render(<< <<"a">>, <<"b">>, <<"c">>, <<"d">>, <<"e">> >>)

\* tokenize, make_shingles, best_match for a query against a one-document corpus
excerpt(doc_text, query_text, k) ==
    LET tree == <<[path |-> FnPath(1), isfile |-> TRUE, readable |-> TRUE,
                   content |-> doc_text]>>
        toks == tokenize(normalize(read_text(query_text)))
    IN  best_match(Range(make_shingles(toks, k)), build_corpus(tree, k))

\* pattern strings: two that compile and one that does not
InvalidLit == <<"(">>
PatternStrings ==
    {[valid |-> TRUE, lit |-> DefaultLit], [valid |-> TRUE, lit |-> <<"a">>],
     [valid |-> FALSE, lit |-> InvalidLit]}

\* refusal sources: absent, unreadable, not JSON, a JSON number, and a JSON
\* object or list holding up to MaxPats pattern strings
FnRefusalSources ==
    {[exists |-> FALSE, readable |-> FALSE, kind |-> "invalid", pats |-> <<>>],
     [exists |-> TRUE, readable |-> FALSE, kind |-> "invalid", pats |-> <<>>],
     [exists |-> TRUE, readable |-> TRUE, kind |-> "invalid", pats |-> <<>>],
     [exists |-> TRUE, readable |-> TRUE, kind |-> "other", pats |-> <<>>]}
    \cup {[exists |-> TRUE, readable |-> TRUE, kind |-> k, pats |-> p] :
            k \in {"dict", "list"}, p \in SeqsUpTo(PatternStrings, MaxPats)}

\* texts of up to MaxText characters over letters and blanks, and compiled
\* pattern sets over three literals: a word, the word after a blank, nothing
FnTexts == SeqsUpTo({Space, "n", "o", "N"}, MaxText)
FnCompiled ==
    SeqsUpTo({[valid |-> TRUE, lit |-> l] : l \in {DefaultLit, <<Space>> \o DefaultLit, <<>>}},
             MaxPats)

\* directory names that start with a dot
DotDirs == {".cache"}

\* file-system entries under a root: at the top, in a directory and in a
\* hidden directory, with each kind of suffix, hidden or not, file or directory
FnEntries ==
    {[path |-> Path(dirs, "s", suf, hid), isfile |-> f, readable |-> TRUE,
      content |-> <<>>] :
        dirs \in {<<>>, <<"pop">>, <<".cache">>, <<"pop", ".cache">>},
        suf \in {"", ".txt", ".TXT", ".text", ".TEXT", ".md"},
        hid \in BOOLEAN, f \in BOOLEAN}

\* token sequences of a given length that start with German stop words,
\* go on with English ones and end with words of neither set
LangTokens(h_de, h_en, n) ==
    [i \in 1..n |-> IF i <= h_de THEN W_du ELSE IF i <= h_de + h_en THEN W_a ELSE W_b]

FnLangTokens ==
    {LangTokens(h_de, h_en, n) :
        h_de \in 0..2, h_en \in 0..2, n \in {0, 1, 2, 3, 199, 200, 201, 400}}

\* the modes of a metrics row, and the reference files found for it: up to
\* two files whose shingle sets are drawn from two shingles
FnModes == {"real", "switch_author", "switch_album", "switch_title", "madeup_all", "?"}
FnRefs ==
    {[i \in 1..Len(sets) |-> [path |-> FnPath(i), shset |-> sets[i]]] :
        sets \in SeqsUpTo(SUBSET {1, 2}, 2)}

\* reference trees of two songs of different genres, in either order
FnGenreTrees ==
    LET pop == [path |-> Path(<<"pop">>, "p1", ".txt", FALSE), isfile |-> TRUE,
                readable |-> TRUE, content |-> Render(<<W_du, W_a, W_du>>)]
        rock == [path |-> Path(<<"rock">>, "r1", ".txt", FALSE), isfile |-> TRUE,
                 readable |-> TRUE, content |-> Render(<<W_du>>)]
    IN  {<<pop>>, <<rock>>, <<pop, rock>>, <<rock, pop>>}

InitFn ==
    /\ pc = "functions"
    /\ prog = "eval_coverage"
    /\ shingle_n = 1
    /\ db_tree = <<>>
    /\ refusals \in RefusalSources
    /\ corpus = <<>>
    /\ patterns = <<>>
    /\ rows = <<>>
    /\ counts_by_model = Empty
    /\ agg_by_genre = Empty
    /\ agg_by_lang = Empty
    /\ tables = NoTables
    /\ seen = {}
    /\ matched = {}
    /\ call = NoCall
    /\ ret = NoCall
    /\ gen = NoGen

ApplyJudgeLabel ==
    /\ call = NoCall
    /\ \E c \in Scores, refused \in BOOLEAN, thr \in Thresholds :
        /\ call' = [op |-> "judge_label", max_containment |-> c, refused |-> refused,
                    threshold |-> thr]
        /\ ret' = judge_label(c, refused, thr)
    /\ UNCHANGED runVars

ApplyJudgeOne ==
    /\ call = NoCall
    /\ \E c \in Scores, refused \in BOOLEAN, thr \in Thresholds :
        /\ call' = [op |-> "judge_one", max_containment |-> c, refused |-> refused,
                    threshold |-> thr]
        /\ ret' = judge_one(c, refused, thr)
    /\ UNCHANGED runVars

ApplyScores ==
    /\ call = NoCall
    /\ \E a \in SUBSET Universe, b \in SUBSET Universe :
        /\ call' = [op |-> "scores", a |-> a, b |-> b]
        /\ ret' = [jaccard |-> jaccard(a, b), containment |-> containment(a, b)]
    /\ UNCHANGED runVars

ApplyBestMatch ==
    /\ call = NoCall
    /\ \E a \in SUBSET Universe, corp \in FnCorpora :
        /\ call' = [op |-> "best_match", a_set |-> a, corpus |-> corp]
        /\ ret' = best_match(a, corp)
    /\ UNCHANGED runVars

ApplyExcerpt ==
    /\ call = NoCall
    /\ \E dw \in SeqsUpTo(FnWords, MaxWords), qw \in SeqsUpTo(FnWords, MaxWords), k \in 1..MaxN :
        /\ call' = [op |-> "excerpt", doc |-> Render(dw), query |-> Render(qw), n |-> k]
        /\ ret' = excerpt(Render(dw), Render(qw), k)
    /\ UNCHANGED runVars

ApplyScenarioA ==
    /\ call = NoCall
    /\ call' = [op |-> "excerpt", doc |-> ScenarioDoc, query |-> ScenarioQuery, n |-> 5]
    /\ ret' = excerpt(ScenarioDoc, ScenarioQuery, 5)
    /\ UNCHANGED runVars

ApplyLoadPatterns ==
    /\ call = NoCall
    /\ \E entry \in EntryPoints, src \in FnRefusalSources :
        /\ call' = [op |-> "load_refusal_patterns", entry |-> entry, src |-> src]
        /\ ret' = load_patterns_of(entry, src)
    /\ UNCHANGED runVars

ApplyIsRefusal ==
    /\ call = NoCall
    /\ \E text \in FnTexts, compiled \in FnCompiled :
        /\ call' = [op |-> "is_refusal", text |-> text, compiled |-> compiled]
        /\ ret' = is_refusal(text, compiled)
    /\ UNCHANGED runVars

ApplyMakeShingles ==
    /\ call = NoCall
    /\ \E toks \in SeqsUpTo(FnWords, MaxWords), k \in (0 - 1)..(MaxN + 1) :
        /\ call' = [op |-> "make_shingles", tokens |-> toks, n |-> k]
        /\ ret' = make_shingles(toks, k)
    /\ UNCHANGED runVars

ApplyTokenize ==
    /\ call = NoCall
    /\ \E text \in SeqsUpTo({"a", "b", Space, CombiningUml}, MaxText) :
        /\ call' = [op |-> "tokenize", text |-> text]
        /\ ret' = tokenize(text)
    /\ UNCHANGED runVars

ApplyIterDbFiles ==
    /\ call = NoCall
    /\ \E e \in FnEntries :
        /\ call' = [op |-> "iter_db_files", tree |-> <<e>>]
        /\ ret' = iter_db_files(<<e>>)
    /\ UNCHANGED runVars

ApplyDetectLang ==
    /\ call = NoCall
    /\ \E toks \in FnLangTokens :
        /\ call' = [op |-> "detect_lang", tokens |-> toks]
        /\ ret' = detect_lang(toks)
    /\ UNCHANGED runVars

ApplyJudgeRow ==
    /\ call = NoCall
    /\ \E readable \in BOOLEAN, mode \in FnModes, shset \in SUBSET {1, 2}, refs \in FnRefs,
          refused \in BOOLEAN :
        /\ call' = [op |-> "judge_row", readable |-> readable, mode |-> mode,
                    shset |-> shset, refs |-> refs, refused |-> refused]
        /\ ret' = judge_row(readable, mode, shset, refs, refused, correct_threshold)
    /\ UNCHANGED runVars

\* one iteration of the loop of eval_coverage.main for a file that is read,
\* from empty accumulators
ApplyJudged ==
    /\ call = NoCall
    /\ \E bytes \in OutContents \cup {Render(<<W_du, W_a, W_du>>)}, ok \in BOOLEAN,
          tree \in FnGenreTrees, k \in 1..MaxN :
        LET j == judged(bytes, build_corpus(tree, k), load_refusal_patterns(
                            [exists |-> FALSE, readable |-> FALSE, kind |-> "invalid",
                             pats |-> <<>>]), k)
            acc == aggregate([counts |-> Empty, by_genre |-> Empty, by_lang |-> Empty],
                             "m1", j)
        IN  /\ call' = [op |-> "judged", bytes |-> bytes, ok |-> ok, tree |-> tree, n |-> k]
            /\ ret' = IF ok
                      THEN [row |-> judged_row(OutTree[1].path, j), best |-> j.pc,
                            max_c |-> j.max_c, by_genre |-> acc.by_genre]
                      ELSE [row |-> error_row(OutTree[1].path), best |-> NoPath,
                            max_c |-> Zero, by_genre |-> Empty]
    /\ UNCHANGED runVars

NextFn ==
    \/ ApplyJudgeLabel
    \/ ApplyJudgeOne
    \/ ApplyScores
    \/ ApplyBestMatch
    \/ ApplyExcerpt
    \/ ApplyScenarioA
    \/ ApplyLoadPatterns
    \/ ApplyIsRefusal
    \/ ApplyMakeShingles
    \/ ApplyTokenize
    \/ ApplyIterDbFiles
    \/ ApplyDetectLang
    \/ ApplyJudgeRow
    \/ ApplyJudged

SpecFn == InitFn /\ [][NextFn]_vars

\* ------------------------------------- the aggregation in two row orders
\* containment scores of outputs with 10, 40 and 32 distinct shingles, and 1
AggScores == {Frac(1, 10), Frac(17, 40), Frac(27, 32), One}

\* what an iteration hands to the aggregation: label, genre, lang, max_c
AggItems ==
    {[label |-> judge_label(c, FALSE, correct_threshold), genre |-> g, lang |-> "de",
      max_c |-> c] : c \in AggScores, g \in {"pop", None}}

Perms(n) == {f \in [1..n -> 1..n] : \A i, k \in 1..n : f[i] = f[k] => i = k}

\* the loop of eval_coverage.main over the iterations js, for one model
RECURSIVE aggregate_all(_)
aggregate_all(js) ==
    IF Len(js) = 0 THEN [counts |-> Empty, by_genre |-> Empty, by_lang |-> Empty]
    ELSE aggregate(aggregate_all(SubSeq(js, 1, Len(js) - 1)), "m1", js[Len(js)])

\* the three summaries written from the aggregates
summaries(acc) ==
    [by_genre |-> agg_lines(acc.by_genre),
     by_lang |-> agg_lines(acc.by_lang),
     summary |-> summary_lines(acc.counts)]

ApplyAggregate ==
    /\ call = NoCall
    /\ \E js \in SeqsUpTo(AggItems, MaxAgg) : \E f \in Perms(Len(js)) :
        LET shuffled == [i \in 1..Len(js) |-> js[f[i]]]
        IN  /\ call' = [op |-> "aggregate", first |-> js, second |-> shuffled]
            /\ ret' = [first |-> summaries(aggregate_all(js)),
                       second |-> summaries(aggregate_all(shuffled))]
    /\ UNCHANGED runVars

NextAgg == ApplyAggregate

SpecAgg == InitFn /\ [][NextAgg]_vars

\* -------------------------------------------------------- generate_outputs
\* tries = 3
tries == 3

\* the models of --models, in order
GenModels == <<"m1", "m2">>

\* what one call of the service gives: an answer, a blank answer, an exception
GenAnswers == {"text", "empty", "raise"}

GenPairs(n) == (1..Len(GenModels)) \X (1..n)

InitGen ==
    /\ pc = "generate"
    /\ prog = "eval_coverage"
    /\ shingle_n = 1
    /\ db_tree = <<>>
    /\ refusals \in RefusalSources
    /\ corpus = <<>>
    /\ patterns = <<>>
    /\ rows = <<>>
    /\ counts_by_model = Empty
    /\ agg_by_genre = Empty
    /\ agg_by_lang = Empty
    /\ tables = NoTables
    /\ seen = {}
    /\ matched = {}
    /\ call = NoCall
    /\ ret = NoCall
    /\ \E n \in 0..MaxPrompts :
        gen = [pc |-> "load", prompts |-> n, model |-> 1, idx |-> 1, attempt |-> 1,
               delay |-> 1, last |-> "none",
               calls |-> [p \in GenPairs(n) |-> 0], files |-> [p \in GenPairs(n) |-> 0]]

\* prompts = load_prompts(prompts_path); return when there is none
LoadPrompts ==
    /\ gen.pc = "load"
    /\ gen' = [gen EXCEPT !.pc = IF gen.prompts = 0 THEN "returned" ELSE "attempt"]
    /\ UNCHANGED <<pc, prog, shingle_n, db_tree, refusals, corpus, patterns, rows,
                   counts_by_model, agg_by_genre, agg_by_lang, tables, seen, matched,
                   call, ret>>

\* the retry loop is left: the next prompt, then the next model, then the return;
\* tries = 3 and delay = 1.0 are set anew for the next prompt
gen_next(g) ==
    IF g.idx < g.prompts
    THEN [g EXCEPT !.idx = @ + 1, !.attempt = 1, !.delay = 1]
    ELSE IF g.model < Len(GenModels)
    THEN [g EXCEPT !.model = @ + 1, !.idx = 1, !.attempt = 1, !.delay = 1]
    ELSE [g EXCEPT !.pc = "returned"]

\* mutant of GenAttempt: a written answer does not leave the retry loop
GenAttempt_nobreak ==
    /\ gen.pc = "attempt"
    /\ \E ans \in GenAnswers :
        LET p == <<gen.model, gen.idx>>
            called == [gen EXCEPT !.calls[p] = @ + 1, !.last = ans]
            done == IF ans = "text" THEN [called EXCEPT !.files[p] = @ + 1] ELSE called
        IN  gen' = IF gen.attempt = tries THEN gen_next(done)
                   ELSE [done EXCEPT !.attempt = @ + 1,
                                     !.delay = IF 2 * @ < 8 THEN 2 * @ ELSE 8]
    /\ UNCHANGED <<pc, prog, shingle_n, db_tree, refusals, corpus, patterns, rows,
                   counts_by_model, agg_by_genre, agg_by_lang, tables, seen, matched,
                   call, ret>>

\* one attempt of the retry loop: the call, then the write and the break, or
\* the failure: the sleep and delay = min(delay*2, 8.0), or the end of the tries
GenAttempt ==
    /\ gen.pc = "attempt"
    /\ \E ans \in GenAnswers :
        LET p == <<gen.model, gen.idx>>
            called == [gen EXCEPT !.calls[p] = @ + 1, !.last = ans]
        IN  gen' = IF ans = "text" THEN gen_next([called EXCEPT !.files[p] = @ + 1])
                   ELSE IF gen.attempt = tries THEN gen_next(called)
                   ELSE [called EXCEPT !.attempt = @ + 1,
                                       !.delay = IF 2 * @ < 8 THEN 2 * @ ELSE 8]
    /\ UNCHANGED <<pc, prog, shingle_n, db_tree, refusals, corpus, patterns, rows,
                   counts_by_model, agg_by_genre, agg_by_lang, tables, seen, matched,
                   call, ret>>

NextGen == LoadPrompts \/ GenAttempt

\* every call of the service returns or raises, and the loops take their next step
SpecGen == InitGen /\ [][NextGen]_vars /\ WF_vars(NextGen)

\* ================================================================== claims
IsMax(x, S) == x \in S /\ \A y \in S : RLe(y, x)

\* C1: the label decision of judge_label and judge_one is total and ordered:
\* refused gives refuse whatever the containment (1.0 included), otherwise a
\* containment at or above the threshold gives correct, otherwise hallucinate;
\* the result is never error.
C1_LabelDecision ==
    call.op \in {"judge_label", "judge_one"} =>
        /\ ret \in {"refuse", "correct", "hallucinate"}
        /\ call.refused => ret = "refuse"
        /\ (~call.refused /\ call.max_containment[1] * call.threshold[2]
                >= call.threshold[1] * call.max_containment[2]) => ret = "correct"
        /\ (~call.refused /\ call.max_containment[1] * call.threshold[2]
                < call.threshold[1] * call.max_containment[2]) => ret = "hallucinate"

\* a refused output with containment 1.0 has been labelled
C1_Witness ==
    /\ call.op = "judge_label"
    /\ call.refused
    /\ call.max_containment = One
    /\ RGe(call.max_containment, call.threshold)
    /\ ret = "refuse"

\* the documents of a corpus that best_match does not skip
Candidates(corp) == {i \in 1..Len(corp) : corp[i].shset # {}}

\* the first candidate in scan order whose score (by f) is x
FirstAt(f(_, _), a, corp, x) ==
    CHOOSE i \in Candidates(corp) :
        /\ f(a, corp[i].shset) = x
        /\ \A k \in Candidates(corp) : k < i => f(a, corp[k].shset) # x

\* C5 as stated: each maximum is paired with the path of the first candidate
\* in scan order that attains it.
C5_FirstAttaining ==
    (call.op = "best_match" /\ Candidates(call.corpus) # {}) =>
        LET a == call.a_set
            corp == call.corpus
            js == {jaccard(a, corp[i].shset) : i \in Candidates(corp)}
            cs == {containment(a, corp[i].shset) : i \in Candidates(corp)}
        IN  /\ IsMax(ret[1], js)
            /\ IsMax(ret[3], cs)
            /\ ret[2] = corp[FirstAt(jaccard, a, corp, ret[1])].path
            /\ ret[4] = corp[FirstAt(containment, a, corp, ret[3])].path

\* C5 (amended): best_match returns the maximum Jaccard and the maximum
\* containment over the documents with a non-empty shingle set (0 when there is
\* none); a maximum above 0 is paired with the path of the first document in
\* scan order that attains it, and a maximum of 0 is paired with no path.
C5_BestMatchFirstPositive ==
    call.op = "best_match" =>
        LET a == call.a_set
            corp == call.corpus
            js == {jaccard(a, corp[i].shset) : i \in Candidates(corp)} \cup {Zero}
            cs == {containment(a, corp[i].shset) : i \in Candidates(corp)} \cup {Zero}
        IN  /\ IsMax(ret[1], js)
            /\ IsMax(ret[3], cs)
            /\ ret[2] = IF ret[1] = Zero THEN NoPath
                        ELSE corp[FirstAt(jaccard, a, corp, ret[1])].path
            /\ ret[4] = IF ret[3] = Zero THEN NoPath
                        ELSE corp[FirstAt(containment, a, corp, ret[3])].path

\* two documents tie on a positive maximum and the first of them is returned
C5_Witness ==
    /\ call.op = "best_match"
    /\ Len(call.corpus) >= 2
    /\ ret[3] # Zero
    /\ \E i, k \in Candidates(call.corpus) :
        /\ i < k
        /\ containment(call.a_set, call.corpus[i].shset) = ret[3]
        /\ containment(call.a_set, call.corpus[k].shset) = ret[3]
        /\ jaccard(call.a_set, call.corpus[i].shset) = ret[1]
        /\ jaccard(call.a_set, call.corpus[k].shset) = ret[1]
        /\ ret[4] = call.corpus[i].path
        /\ ret[2] = call.corpus[i].path

\* C6: Jaccard and containment lie in [0,1]; containment is 1 when the query is
\* a non-empty subset of the document; both are 0 when the sets are disjoint
\* (an empty set included).
C6_ScoreBounds ==
    call.op = "scores" =>
        /\ 0 <= ret.jaccard[1] /\ ret.jaccard[1] <= ret.jaccard[2]
        /\ 0 <= ret.containment[1] /\ ret.containment[1] <= ret.containment[2]
        /\ (call.a # {} /\ call.a \subseteq call.b) => ret.containment[1] = ret.containment[2]
        /\ (call.a \cap call.b = {}) => (ret.jaccard[1] = 0 /\ ret.containment[1] = 0)

\* a non-empty query strictly inside a larger document has been scored
C6_Witness ==
    /\ call.op = "scores"
    /\ call.a # {}
    /\ call.a \subseteq call.b
    /\ call.a # call.b
    /\ ret.containment = One
    /\ ret.jaccard # One

\* the shingle set the pipeline derives from a text
ShingleSet(text, k) == Range(make_shingles(tokenize(normalize(read_text(text))), k))

\* C7: for a one-document corpus and a query whose shingle set is a non-empty
\* subset of the document's, the pipeline gives containment 1, Jaccard k/m and
\* both matched paths equal to the document; scenario A (a..f against a..e,
\* N = 5) gives containment 1.0 and Jaccard 0.5.
C7_Excerpt ==
    call.op = "excerpt" =>
        LET q == ShingleSet(call.query, call.n)
            d == ShingleSet(call.doc, call.n)
        IN  /\ (q # {} /\ q \subseteq d) =>
                /\ ret[3] = One
                /\ ret[1][1] * Cardinality(d) = Cardinality(q) * ret[1][2]
                /\ ret[2] = FnPath(1)
                /\ ret[4] = FnPath(1)
            /\ (call.doc = ScenarioDoc /\ call.query = ScenarioQuery /\ call.n = 5) =>
                ret = <<(<<1, 2>>), FnPath(1), One, FnPath(1)>>

\* a proper excerpt (fewer shingles than the document) has been matched
C7_Witness ==
    /\ call.op = "excerpt"
    /\ ShingleSet(call.query, call.n) # {}
    /\ ShingleSet(call.query, call.n) \subseteq ShingleSet(call.doc, call.n)
    /\ Cardinality(ShingleSet(call.query, call.n)) < Cardinality(ShingleSet(call.doc, call.n))
    /\ ret[3] = One
    /\ ret[1] = <<1, 2>>

\* ------------------------------------------------------ claims on the run
RowModel(r) == IF prog = "eval_coverage" THEN r.model ELSE r.model_dir
RowsFor(p) == {i \in 1..Len(rows) : rows[i].output_path = p}
RowsOf(m, l) == Cardinality({i \in 1..Len(rows) : RowModel(rows[i]) = m /\ rows[i].label = l})
RowsOfModel(m) == Cardinality({i \in 1..Len(rows) : RowModel(rows[i]) = m})
Unreadable == {s \in seen : ~s.ok}
Undecodable == {s \in seen : s.ok /\ BadByte \in Range(s.bytes)}
Counted == prog = "eval_coverage" \/ pc = "done"
ZeroRow(r) ==
    /\ r.label = "error"
    /\ r.tokens = 0 /\ r.shingles = 0
    /\ r.max_jaccard = 0 /\ r.max_containment = 0

\* C2: a file whose read raises gets exactly one row, labelled error, with
\* tokens, shingles and both scores 0, no match path and a note naming the
\* failure; it is counted under error only, it is given neither to best_match
\* nor to is_refusal, and the run goes on.
C2_ReadErrorRow ==
    \A s \in Unreadable :
        /\ Cardinality(RowsFor(s.path)) = 1
        /\ \A i \in RowsFor(s.path) :
            /\ ZeroRow(rows[i])
            /\ rows[i].best_song_jaccard = NoPath
            /\ rows[i].best_song_containment = NoPath
            /\ rows[i].note = "read_error"
            /\ Counted =>
                /\ RowModel(rows[i]) \in DOMAIN counts_by_model
                /\ get(counts_by_model[RowModel(rows[i])], "error")
                      = RowsOf(RowModel(rows[i]), "error")
                /\ \A l \in Labels \ {"error"} :
                      get(counts_by_model[RowModel(rows[i])], l) = RowsOf(RowModel(rows[i]), l)
        /\ s.path \notin matched
        /\ pc \in {"scan", "done"}

\* an unreadable file was followed by a file that was judged, all in one model
C2_Witness ==
    /\ prog = "eval_coverage"
    /\ Len(rows) = 2
    /\ rows[1].label = "error"
    /\ rows[2].label = "correct"
    /\ rows[1].model = rows[2].model
    /\ counts_by_model[rows[1].model]["error"] = 1

\* C3: an output file whose bytes do not decode as text gets exactly one row,
\* labelled error with zero tokens, shingles and scores, and no other label.
C3_UndecodableIsError ==
    \A s \in Undecodable :
        /\ Cardinality(RowsFor(s.path)) = 1
        /\ \A i \in RowsFor(s.path) : ZeroRow(rows[i])

\* C4: a corpus without documents ends the run with the fatal error before any
\* output file is read, matched or classified: no row, no count, no table.
C4_EmptyCorpusFatal ==
    (pc # "start" /\ Len(corpus) = 0) =>
        /\ pc = "fatal"
        /\ rows = <<>>
        /\ seen = {}
        /\ matched = {}
        /\ counts_by_model = Empty
        /\ ~tables.written

\* the run ended fatally over a tree that holds files, none of them usable
C4_Witness == pc = "fatal" /\ Len(db_tree) = 2 /\ Len(corpus) = 0

\* C8: the aggregates do not depend on the order in which the files are
\* processed: the same iterations taken in two orders give the same label
\* counts per model and the same lines, count and mean containment, per genre
\* and per language.
C8_OrderIndependent ==
    call.op = "aggregate" => ret.first = ret.second

\* C9: per model the four label counts add up to the rows of the model and over
\* all models to the number of rows; the summary has one line per model that has
\* a row, in ascending model order, with total the sum of its four counts.
C9_CountsMatchRows ==
    /\ (pc \in {"scan", "done"} /\ Counted) =>
        /\ DOMAIN counts_by_model = {RowModel(rows[i]) : i \in 1..Len(rows)}
        /\ \A m \in DOMAIN counts_by_model :
            /\ DOMAIN counts_by_model[m] \subseteq Labels
            /\ get(counts_by_model[m], "correct") + get(counts_by_model[m], "refuse")
                 + get(counts_by_model[m], "hallucinate") + get(counts_by_model[m], "error")
                 = RowsOfModel(m)
            /\ \A l \in Labels : get(counts_by_model[m], l) = RowsOf(m, l)
    /\ pc = "done" =>
        LET sm == tables.summary
        IN  /\ {sm[i].model : i \in 1..Len(sm)} = {RowModel(rows[i]) : i \in 1..Len(rows)}
            /\ \A i, k \in 1..Len(sm) : i < k => StrRank[sm[i].model] < StrRank[sm[k].model]
            /\ \A i \in 1..Len(sm) :
                /\ sm[i].total = sm[i].correct + sm[i].refuse + sm[i].hallucinate + sm[i].error
                /\ sm[i].total = RowsOfModel(sm[i].model)
                /\ sm[i].correct = RowsOf(sm[i].model, "correct")
                /\ sm[i].refuse = RowsOf(sm[i].model, "refuse")
                /\ sm[i].hallucinate = RowsOf(sm[i].model, "hallucinate")
                /\ sm[i].error = RowsOf(sm[i].model, "error")

\* a summary of two models was written, the second model's file taken first
C9_Witness ==
    /\ pc = "done"
    /\ Len(rows) = 2
    /\ RowModel(rows[1]) = "unknown-model"
    /\ RowModel(rows[2]) = "m1"
    /\ Len(tables.summary) = 2
    /\ tables.summary[1].model = "m1"
    /\ tables.summary[1].total = 1

\* C10: every enumerated file, readable or not, has exactly one row, with one
\* of the four labels, and a row once appended is neither changed nor removed.
C10_OneRowPerFile ==
    /\ [](/\ Len(rows) = Cardinality(seen)
          /\ \A s \in seen : Cardinality(RowsFor(s.path)) = 1
          /\ \A i \in 1..Len(rows) :
                /\ rows[i].label \in Labels
                /\ \E s \in seen : s.path = rows[i].output_path)
    /\ [][/\ Len(rows') >= Len(rows)
          /\ \A i \in 1..Len(rows) : rows'[i] = rows[i]
          /\ pc = "done" => rows' = rows]_vars

\* an error row is still in place after a later file was judged
C10_Witness ==
    /\ Len(rows) = 2
    /\ rows[1].label = "error"
    /\ rows[2].label \in {"correct", "refuse", "hallucinate"}
    /\ pc = "done"
    /\ tables.body = rows

\* a source that is absent, unreadable, not valid structured data, or that
\* yields no patterns
NoPatterns(src) ==
    ~src.exists \/ ~src.readable \/ src.kind \in {"invalid", "other"} \/ src.pats = <<>>

\* C11: in every judging entry point, load_refusal_patterns given a source
\* that is absent, unreadable, not valid structured data or without patterns
\* returns the compiled built-in default set and does not raise.
C11_FallbackToDefaults ==
    (call.op = "load_refusal_patterns" /\ NoPatterns(call.src)) =>
        /\ ~ret.raised
        /\ ret.compiled = DEFAULT_REFUSAL_PATTERNS

\* C12: in every judging entry point, a pattern that fails to compile is
\* dropped without raising: the loaded set is exactly the compilable patterns
\* of the source, in their original order.
C12_InvalidPatternDropped ==
    (call.op = "load_refusal_patterns" /\ ~NoPatterns(call.src)) =>
        /\ ~ret.raised
        /\ ret.compiled = SelectSeq(call.src.pats, LAMBDA p : p.valid)


\* the text between its first and its last character that is not white
Trimmed(t) ==
    LET inner == {i \in 1..Len(t) : t[i] \notin WhiteChars}
    IN  IF inner = {} THEN <<>>
        ELSE SubSeq(t, CHOOSE i \in inner : \A k \in inner : i <= k,
                       CHOOSE i \in inner : \A k \in inner : k <= i)

\* the literal occurs in t at some offset, letter case aside
Occurs(lit, t) ==
    \E off \in 0..(Len(t) - Len(lit)) :
        \A k \in 1..Len(lit) : lower(t[off + k]) = lower(lit[k])

\* C13: is_refusal(text, patterns) is true exactly when the text is not empty
\* and some pattern of the set matches somewhere in the trimmed text; it is
\* false for the empty text and for the empty pattern set.
C13_RefusalIffMatch ==
    call.op = "is_refusal" =>
        /\ ret <=> (/\ call.text # <<>>
                    /\ \E i \in 1..Len(call.compiled) :
                          Occurs(call.compiled[i].lit, Trimmed(call.text)))
        /\ call.text = <<>> => ~ret
        /\ call.compiled = <<>> => ~ret

\* a pattern that matches only the untrimmed text was tried and is no refusal
C13_Witness ==
    /\ call.op = "is_refusal"
    /\ ~ret
    /\ call.compiled # <<>>
    /\ \E i \in 1..Len(call.compiled) : Occurs(call.compiled[i].lit, call.text)


\* C14: make_shingles(tokens, n) is empty when n <= 0 or len(tokens) < n;
\* otherwise it has len(tokens) - n + 1 shingles, the i-th being the n tokens
\* from position i on, in order, duplicates kept.
C14_Windows ==
    call.op = "make_shingles" =>
        IF call.n <= 0 \/ Len(call.tokens) < call.n
        THEN ret = <<>>
        ELSE /\ Len(ret) = Len(call.tokens) - call.n + 1
             /\ Len(call.tokens) = call.n => Len(ret) = 1
             /\ \A i \in 1..Len(ret) :
                    /\ Len(ret[i]) = call.n
                    /\ \A k \in 1..call.n : ret[i][k] = call.tokens[i + k - 1]

\* two windows of two tokens are equal and both are returned
C14_Witness ==
    /\ call.op = "make_shingles"
    /\ call.n = 2
    /\ \E i, k \in 1..Len(ret) : i < k /\ ret[i] = ret[k]


\* the positions of a text where a run of alphanumeric characters starts
RunStarts(t) ==
    {i \in 1..Len(t) : isalnum(t[i]) /\ (i = 1 \/ ~isalnum(t[i - 1]))}

\* C15: tokenize returns the maximal runs of alphanumeric characters from
\* left to right: no token is empty or holds another character, the j-th token
\* is the run at the j-th run start, the tokens joined are the text without
\* its other characters, and a text without alphanumerics gives no token.
C15_MaximalRuns ==
    call.op = "tokenize" =>
        LET t == call.text
            starts == RunStarts(t)
        IN  /\ Len(ret) = Cardinality(starts)
            /\ Concat(ret) = SelectSeq(t, isalnum)
            /\ \A j \in 1..Len(ret) :
                LET s == CHOOSE x \in starts : Cardinality({y \in starts : y < x}) = j - 1
                    e == s + Len(ret[j])
                IN  /\ Len(ret[j]) >= 1
                    /\ \A k \in 1..Len(ret[j]) : isalnum(ret[j][k]) /\ ret[j][k] = t[s + k - 1]
                    /\ e = Len(t) + 1 \/ ~isalnum(t[e])
            /\ (\A i \in 1..Len(t) : ~isalnum(t[i])) => ret = <<>>

\* two runs, the second one ending the text, have become two tokens
C15_Witness ==
    /\ call.op = "tokenize"
    /\ Len(ret) = 2
    /\ isalnum(call.text[Len(call.text)])


\* the JudgmentRow fields in the order the claim gives them, under the names
\* the code writes (best_jaccard_match is best_song_jaccard, and
\* best_containment_match is best_song_containment)
JudgmentRowFields ==
    <<"output_path", "model", "mode", "lang", "tokens", "shingles", "max_jaccard",
      "best_song_jaccard", "max_containment", "best_song_containment", "genre",
      "label", "note">>

\* C16: the header of the row table is exactly the JudgmentRow field names,
\* in that order, whenever a row exists, and the fixed fallback header when
\* there is no row.
C16_HeaderOrder ==
    (prog = "eval_coverage" /\ tables.written) =>
        tables.header = IF rows # <<>> THEN JudgmentRowFields ELSE FallbackHeader


\* the files of the reference tree that the build accepts and can read
Usable(tree) ==
    SelectSeq(tree, LAMBDA e :
        /\ e.isfile /\ e.readable /\ ~e.path.hidden
        /\ e.path.suffix \in {"", ".txt", ".text", ".TXT", ".TEXT"})

\* C18: the corpus and the pattern set are complete before the first output
\* file is read or matched, and no later step changes them: every step of
\* the scan and of the writing leaves every document and every pattern as it
\* was.
C18_BuiltOnceReadOnly ==
    /\ []((seen # {} \/ matched # {} \/ rows # <<>> \/ tables.written) =>
            /\ pc \in {"scan", "done"}
            /\ Len(corpus) = Len(Usable(db_tree))
            /\ \A i \in 1..Len(corpus) : corpus[i].path = Usable(db_tree)[i].path
            /\ patterns = load_patterns_of(prog, refusals).compiled)
    /\ [][(pc \in {"scan", "done"}) => (corpus' = corpus /\ patterns' = patterns)]_vars

\* two files were matched against a corpus of two documents, one refused
C18_Witness ==
    /\ pc = "done"
    /\ Len(corpus) = 2
    /\ Len(rows) = 2
    /\ \E i \in 1..2 : rows[i].label = "refuse"
    /\ \E i \in 1..2 : rows[i].label = "correct"

\* C20: build_corpus does not abort on an unreadable reference file: the file
\* is skipped, and the corpus holds exactly one Document per accepted file
\* that could be read, in enumeration order, whose shingle set is the set of
\* the windows of length N of its tokens, for the N of the whole corpus.
Windows(toks, k) == {SubSeq(toks, i, i + k - 1) : i \in 1..(Len(toks) - k + 1)}

C20_SkipsUnreadable ==
    (prog = "eval_coverage" /\ pc # "start") =>
        /\ Len(corpus) = Len(Usable(db_tree))
        /\ \A i \in 1..Len(corpus) :
            LET e == Usable(db_tree)[i]
                toks == tokenize(normalize(read_text(e.content)))
            IN  /\ corpus[i].path = e.path
                /\ corpus[i].tokens = toks
                /\ corpus[i].shset = Windows(toks, shingle_n)
                /\ \A sh \in corpus[i].shset : Len(sh) = shingle_n
        /\ (pc = "fatal") = (Usable(db_tree) = <<>>)

C20_Witness ==
    /\ prog = "eval_coverage"
    /\ pc = "done"
    /\ \E i \in 1..Len(db_tree) :
        /\ ~db_tree[i].readable
        /\ \E j \in 1..(i - 1) : db_tree[j].readable
    /\ Len(corpus) = 1
    /\ corpus[1].shset # {}

\* C19: the row of an output file is a function of that file's path and
\* content, the corpus, the pattern set and the parameters only: whatever
\* other files were processed, and in whatever order, the row in the list is
\* the one computed for the file alone, and every file read has one row.
RowAlone(s) ==
    IF prog = "eval_coverage"
    THEN IF s.ok THEN judged_row(s.path, judged(s.bytes, corpus, patterns, shingle_n))
         ELSE error_row(s.path)
    ELSE IF s.ok THEN judged_result(s.path, s.bytes, corpus, patterns, shingle_n)
         ELSE error_result(s.path)

C19_PerFileIndependence ==
    /\ Len(rows) = Cardinality(seen)
    /\ \A s \in seen : \E i \in 1..Len(rows) : rows[i].output_path = s.path
    /\ \A i \in 1..Len(rows) : \A s \in seen :
        s.path = rows[i].output_path => rows[i] = RowAlone(s)

C19_Witness ==
    /\ pc = "done"
    /\ Len(rows) = 2
    /\ \A s \in seen : s.ok
    /\ rows[1].note = "refused"
    /\ rows[2].note = ""
    /\ rows[2].label = "correct"

\* C17: the row sequence and the summary tables of a run are determined by
\* the reference tree, the output files in the order they were enumerated,
\* the pattern source and the parameters: what a finished run wrote is what
\* is computed again from these inputs alone, so two runs over the same
\* inputs in the same order write the same rows and the same tables.
RunInputs ==
    [files |-> [i \in 1..Len(rows) |-> CHOOSE s \in seen : s.path = rows[i].output_path],
     corp |-> IF prog = "eval_coverage" THEN build_corpus(db_tree, shingle_n)
              ELSE build_db_corpus(db_tree, shingle_n),
     pats |-> load_patterns_of(prog, refusals).compiled]

\* what the loop computes for the k-th file, before any rounding
RerunJudged(in, k) == judged(in.files[k].bytes, in.corp, in.pats, shingle_n)

RerunRow(in, k, j) ==
    LET s == in.files[k]
    IN  IF prog = "eval_coverage"
        THEN IF s.ok THEN judged_row(s.path, j) ELSE error_row(s.path)
        ELSE IF s.ok THEN judged_result(s.path, s.bytes, in.corp, in.pats, shingle_n)
             ELSE error_result(s.path)

\* the rows and the three accumulators once the k-th file is added to prev
RerunStep(in, k, prev, j) ==
    LET s == in.files[k]
        acc == IF prog # "eval_coverage" THEN prev
               ELSE IF s.ok THEN aggregate(prev, model_dir_of(s.path), j)
               ELSE [counts |-> inc(prev.counts, model_dir_of(s.path), "error"),
                     by_genre |-> prev.by_genre, by_lang |-> prev.by_lang]
    IN  [rows |-> Append(prev.rows, RerunRow(in, k, j)), counts |-> acc.counts,
         by_genre |-> acc.by_genre, by_lang |-> acc.by_lang]

\* the rows and the three accumulators after the first k files
RECURSIVE Rerun(_, _)
Rerun(in, k) ==
    IF k = 0 THEN [rows |-> <<>>, counts |-> Empty, by_genre |-> Empty, by_lang |-> Empty]
    ELSE CHOOSE r \in {RerunStep(in, k, prev, j) :
                           prev \in {Rerun(in, k - 1)}, j \in {RerunJudged(in, k)}} : TRUE

RerunTables(run) ==
    IF prog = "eval_coverage"
    THEN [written |-> TRUE,
          header |-> IF run.rows # <<>> THEN RowKeys ELSE FallbackHeader,
          body |-> run.rows,
          by_genre |-> agg_lines(run.by_genre),
          by_lang |-> agg_lines(run.by_lang),
          summary |-> summary_lines(run.counts)]
    ELSE [written |-> TRUE,
          header |-> JudgeHeader,
          body |-> run.rows,
          summary |-> summary_lines(count_rows(Empty, run.rows))]

C21_NoHiddenYield ==
    call.op = "iter_db_files" =>
        \A i \in 1..Len(call.tree) :
            LET e == call.tree[i]
            IN  (\E k \in 1..Len(ret) : ret[k] = e) <=>
                    /\ e.isfile
                    /\ e.path.suffix \in {"", ".txt", ".TXT", ".text", ".TEXT"}
                    /\ ~e.path.hidden
                    /\ \A d \in 1..Len(e.path.dirs) : e.path.dirs[d] \notin DotDirs

\* C22: language detection returns unknown exactly when the token sequence
\* is empty or neither hit rate exceeds 0.5 %; a text whose larger hit rate
\* is exactly 0.5 % is unknown.
C22_UnknownAtFloor ==
    call.op = "detect_lang" =>
        LET total == Len(call.tokens)
            hits_de == Count(call.tokens, STOP_DE)
            hits_en == Count(call.tokens, STOP_EN)
        IN  (ret = None) <=>
                \/ total = 0
                \/ (200 * hits_de <= total /\ 200 * hits_en <= total)

\* C23: in judge_row, for the modes that compare against reference files
\* (real, switch_author, switch_album, switch_title), an output matched by a
\* refusal pattern is labeled refuse whatever its containment score, also
\* when the containment reaches the correct threshold.
C23_RefusalBeforeScore ==
    (/\ call.op = "judge_row"
     /\ call.readable
     /\ call.refused
     /\ call.mode \in {"real", "switch_author", "switch_album", "switch_title"}
     /\ call.refs # <<>>)
        => ret.label = "refuse"

\* C24: for every row that contributes to the per-genre aggregate, the genre
\* key under which its max_containment is accumulated, and the genre written
\* in the row, is the genre of the document reported as the row's best
\* containment match.
C24_GenreOfBestContainment ==
    (call.op = "judged" /\ DOMAIN ret.by_genre # {}) =>
        /\ ret.best # NoPath
        /\ DOMAIN ret.by_genre = {genre_from_path(ret.best)}
        /\ ret.row.genre = genre_from_path(ret.best)
        /\ ret.row.best_song_containment = ret.best

\* C25: whenever the run passes the corpus check and starts matching
\* outputs, at least one corpus document has a non-empty shingle set.
C25_SomeDocumentCanMatch ==
    (pc \in {"scan", "done"} /\ matched # {}) =>
        \E i \in 1..Len(corpus) : corpus[i].shset # {}

\* C26: the retry of generate_outputs is bounded and local: for each pair of
\* model and prompt the service is called 3 times at most, the loop stops at
\* the first answer that is not empty and writes the file of the pair once;
\* an empty answer counts as a failure; after 3 failures no file is written
\* for the pair and the next prompt is taken; the delay starts at 1, doubles
\* after each failure and never exceeds 8; the loops always terminate.
GenRank(p, n) == (p[1] - 1) * n + p[2]

GenState ==
    gen.pc \in {"attempt", "returned"} =>
        \A p \in GenPairs(gen.prompts) :
            LET cur == <<gen.model, gen.idx>>
                finished == gen.pc = "returned"
                              \/ GenRank(p, gen.prompts) < GenRank(cur, gen.prompts)
            IN  /\ gen.calls[p] <= tries
                /\ gen.files[p] <= 1
                /\ finished =>
                        /\ gen.calls[p] >= 1
                        /\ gen.files[p] = 0 => gen.calls[p] = tries
                /\ (~finished /\ p # cur) => (gen.calls[p] = 0 /\ gen.files[p] = 0)
                /\ (~finished /\ p = cur) =>
                        /\ gen.calls[p] = gen.attempt - 1
                        /\ gen.files[p] = 0
                        /\ gen.delay = 2 ^ (gen.attempt - 1)
                        /\ gen.delay <= 8

GenStep ==
    gen.pc = "attempt" =>
        LET p == <<gen.model, gen.idx>>
            left == gen'.pc = "returned" \/ <<gen'.model, gen'.idx>> # p
        IN  /\ gen'.calls[p] = gen.calls[p] + 1
            /\ gen'.last = "text" => (gen'.files[p] = 1 /\ left)
            /\ gen'.last # "text" =>
                    /\ gen'.files[p] = 0
                    /\ left <=> gen.attempt = tries
                    /\ ~left => (gen'.attempt = gen.attempt + 1 /\ gen'.delay = 2 * gen.delay)
            /\ (left /\ gen'.pc # "returned") =>
                    /\ GenRank(<<gen'.model, gen'.idx>>, gen.prompts)
                            = GenRank(p, gen.prompts) + 1
                    /\ gen'.attempt = 1
                    /\ gen'.delay = 1

C27_JaccardAtMostContainment ==
    /\ call.op = "scores" => RLe(ret.jaccard, ret.containment)
    /\ call.op = "best_match" => RLe(ret[1], ret[3])
    /\ call.op = "judged" => ret.row.max_jaccard <= ret.row.max_containment

\* the two maxima are positive, differ, and come from different documents
C27_Witness ==
    /\ call.op = "best_match"
    /\ RLt(Zero, ret[1])
    /\ RLt(ret[1], ret[3])
    /\ ret[2] # ret[4]

\* ------------------------------------------------------------------ C28
\* C28: best_match returns a Jaccard path iff max_jaccard > 0 and a containment
\* path iff max_containment > 0; the two paths are both present or both absent;
\* a query that is empty or shares no shingle with any document gets
\* (0, none, 0, none).
C28_PathIffPositive ==
    call.op = "best_match" =>
        /\ (ret[2] # NoPath) <=> RGt(ret[1], Zero)
        /\ (ret[4] # NoPath) <=> RGt(ret[3], Zero)
        /\ (ret[2] = NoPath) <=> (ret[4] = NoPath)
        /\ (\A i \in 1..Len(call.corpus) : call.a_set \cap call.corpus[i].shset = {})
               => ret = <<Zero, NoPath, Zero, NoPath>>

\* a non-empty query scanned against two non-empty documents it shares nothing with
C28_Witness ==
    /\ call.op = "best_match"
    /\ call.a_set # {}
    /\ Len(call.corpus) = 2
    /\ \A i \in 1..2 : call.corpus[i].shset # {} /\ call.a_set \cap call.corpus[i].shset = {}
    /\ ret = <<Zero, NoPath, Zero, NoPath>>

\* ------------------------------------------------------------------ C29
\* C29: in a row that is not an error row, tokens is the number of tokens of
\* the output and shingles equals max(0, tokens - N + 1) for N >= 1: it counts
\* the sliding windows, duplicates included, not the deduplicated shingle set
\* used for matching; in an error row tokens = shingles = 0.
C29_ShinglesCountWindows ==
    call.op = "judged" =>
        IF call.ok
        THEN LET t == Len(tokenize(normalize(read_text(call.bytes))))
             IN  /\ ret.row.label # "error"
                 /\ ret.row.tokens = t
                 /\ ret.row.shingles = IF t - call.n + 1 > 0 THEN t - call.n + 1 ELSE 0
        ELSE /\ ret.row.label = "error"
             /\ ret.row.tokens = 0
             /\ ret.row.shingles = 0

\* an output that repeats a shingle: more windows are recorded than the
\* deduplicated set holds
C29_Witness ==
    /\ call.op = "judged"
    /\ call.ok
    /\ ret.row.tokens = 3
    /\ ret.row.shingles = 3
    /\ Cardinality(Range(make_shingles(tokenize(normalize(read_text(call.bytes))), call.n))) = 2

\* ------------------------------------------------------------------ C30
AggSize(agg) == sum_values([g \in DOMAIN agg |-> Len(agg[g])])

\* C30: every containment value in the per-genre aggregate is above 0; the
\* aggregate holds one value per row that has a genre, and neither an error
\* row nor a row without a matching reference document has one; the
\* per-language aggregate holds one value per row that has a language, and an
\* error row has none.
C30_GenreValuesPositive ==
    prog = "eval_coverage" =>
        /\ \A g \in DOMAIN agg_by_genre :
              \A i \in 1..Len(agg_by_genre[g]) : RGt(agg_by_genre[g][i], Zero)
        /\ AggSize(agg_by_genre) = Cardinality({i \in 1..Len(rows) : rows[i].genre # "?"})
        /\ AggSize(agg_by_lang) = Cardinality({i \in 1..Len(rows) : rows[i].lang # "?"})
        /\ \A i \in 1..Len(rows) :
              /\ rows[i].label = "error" => (rows[i].genre = "?" /\ rows[i].lang = "?")
              /\ rows[i].best_song_containment = NoPath => rows[i].genre = "?"

\* a run that ended with an error row and a row that has a genre: each
\* aggregate holds the one value of the second row
C30_Witness ==
    /\ prog = "eval_coverage"
    /\ pc = "done"
    /\ Len(rows) = 2
    /\ \E i, k \in 1..2 :
        /\ rows[i].label = "error"
        /\ rows[k].label # "error"
        /\ rows[k].genre # "?"
    /\ AggSize(agg_by_genre) = 1
    /\ AggSize(agg_by_lang) = 1

====
